---- MODULE Spec2Model ----
(***************************************************************************)
(* Model of btlewrap/base.py: BluetoothInterface and the context manager   *)
(* _BackendConnection, which serialises backend sessions through one       *)
(* class-level threading.Lock.                                             *)
(*                                                                         *)
(* The process has one BluetoothInterface, which owns the one backend.     *)
(* Every thread works on its own guard (one _BackendConnection at a time). *)
(* A method call is split at every point where another thread can run:     *)
(* the lock acquisition, the write of _has_lock, each backend call, the    *)
(* lock release and the clearing of _has_lock are separate steps.          *)
(***************************************************************************)
EXTENDS Integers, FiniteSets

\* Number of threads, each using its own guard.
NumThreads == 2
Threads == 1..NumThreads

\* Outcomes of backend.check_backend(): it returns a bool, or raises
\* (AbstractBackend.check_backend raises NotImplementedError).
CheckResults == {"true", "false", "raise"}

\* Device addresses and timeouts given to connect().
Macs == {"AA:BB:CC:DD:EE:FF", "11:22:33:44:55:66"}
Timeouts == {"None", "5"}

\* connect(self, mac, timeout=None): the timeout of a call that gives none.
DefaultTimeout == "None"

\* The backend instance the Interface owns (self._backend).
Interface_backend == "backend"

\* Error in flight at __exit__: none, or an error raised inside the region.
RegionErrors == {"none", "R"}

VARIABLES
    iface,     \* the Interface: "absent", "live", "td_disc" (inside __del__,
               \* about to call disconnect), "dead", "failed" (__init__ raised)
    usable,    \* what check_backend() returned for the Interface's backend
    tdseen,    \* what is_connected() returned inside the Interface's __del__
    tdisc,     \* backend.disconnect calls made by the Interface's __del__
    tdexc,     \* error that left the Interface's __del__
    locked,    \* _BackendConnection._lock.locked()
    pc,        \* pc[t]: position of thread t inside the method it runs
    op,        \* op[t]: the guard method t runs, or ran last
    exc,       \* exc[t]: error in flight; at "idle", what reached the caller
    has_lock,  \* has_lock[t]: self._has_lock of t's guard
    gbackend,  \* gbackend[t]: self._backend of t's guard
    gmac,      \* gmac[t]: self._mac of t's guard
    gtimeout,  \* gtimeout[t]: self._timeout of t's guard
    gargs,     \* gargs[t]: the <<mac, timeout>> given to the connect() call
               \* that made t's guard
    gstate,    \* gstate[t]: "None" (no guard), "Created", "Held", "Released"
    conn,      \* conn[t]: outcome of backend.connect since the last acquire
    ndisc      \* ndisc[t]: backend.disconnect calls since the last acquire

vars == <<iface, usable, tdseen, tdisc, tdexc, locked, pc, op, exc, has_lock,
          gbackend, gmac, gtimeout, gargs, gstate, conn, ndisc>>

ifaceVars == <<iface, usable, tdseen, tdisc, tdexc>>
bindVars == <<gbackend, gmac, gtimeout, gargs>>
guardVars == <<pc, op, exc, has_lock, gbackend, gmac, gtimeout, gargs, gstate,
               conn, ndisc>>

\* A guard's backend session is open from its backend.connect call until
\* its backend.disconnect call.
InSession(t) == conn[t] # "none" /\ ndisc[t] = 0

\* A guard is Held from the return of _lock.acquire() in __enter__ until
\* _lock.release() in _cleanup.
Held(t) == gstate[t] = "Held"

\* Mutant: is_connected() reads the guards' flags instead of the lock.
Guard_is_connected_FromFlags == \E t \in Threads : has_lock[t]

\* _BackendConnection.is_connected(): _BackendConnection._lock.locked()
Guard_is_connected == locked

\* BluetoothInterface.is_connected(): _BackendConnection.is_connected()
Interface_is_connected == Guard_is_connected

Init ==
    /\ iface = "absent"
    /\ usable = FALSE
    /\ tdseen = FALSE
    /\ tdisc = 0
    /\ tdexc = "none"
    /\ locked = FALSE
    /\ pc = [t \in Threads |-> "idle"]
    /\ op = [t \in Threads |-> "none"]
    /\ exc = [t \in Threads |-> "none"]
    /\ has_lock = [t \in Threads |-> FALSE]
    /\ gbackend = [t \in Threads |-> "none"]
    /\ gmac = [t \in Threads |-> "none"]
    /\ gtimeout = [t \in Threads |-> "none"]
    /\ gargs = [t \in Threads |-> <<"none", "none">>]
    /\ gstate = [t \in Threads |-> "None"]
    /\ conn = [t \in Threads |-> "none"]
    /\ ndisc = [t \in Threads |-> 0]

(***************************************************************************)
(* BluetoothInterface                                                      *)
(***************************************************************************)

\* __init__: instantiate the backend, call check_backend() and drop its
\* result; only an exception raised by check_backend() stops construction.
Construct(r) ==
    /\ iface \in {"absent", "failed"}
    /\ r \in CheckResults
    /\ IF r = "raise"
         THEN /\ iface' = "failed"
              /\ UNCHANGED usable
         ELSE /\ iface' = "live"
              /\ usable' = (r = "true")
    /\ UNCHANGED <<tdseen, tdisc, tdexc, locked, guardVars>>

\* Mutant: the guard's __init__ starts with the flag set.
IfaceConnect_FlagSet(t, mac, timeout) ==
    /\ iface = "live"
    /\ pc[t] = "idle"
    /\ gstate[t] = "None"
    /\ mac \in Macs
    /\ timeout \in Timeouts
    /\ gstate' = [gstate EXCEPT ![t] = "Created"]
    /\ gbackend' = [gbackend EXCEPT ![t] = Interface_backend]
    /\ gmac' = [gmac EXCEPT ![t] = mac]
    /\ gtimeout' = [gtimeout EXCEPT ![t] = timeout]
    /\ gargs' = [gargs EXCEPT ![t] = <<mac, timeout>>]
    /\ has_lock' = [has_lock EXCEPT ![t] = TRUE]
    /\ op' = [op EXCEPT ![t] = "none"]
    /\ exc' = [exc EXCEPT ![t] = "none"]
    /\ conn' = [conn EXCEPT ![t] = "none"]
    /\ ndisc' = [ndisc EXCEPT ![t] = 0]
    /\ UNCHANGED <<ifaceVars, locked, pc>>

\* Mutant: connect() drops the timeout (the guard keeps the default).
IfaceConnect_DropsTimeout(t, mac, timeout) ==
    /\ iface = "live"
    /\ pc[t] = "idle"
    /\ gstate[t] = "None"
    /\ mac \in Macs
    /\ timeout \in Timeouts
    /\ gstate' = [gstate EXCEPT ![t] = "Created"]
    /\ gbackend' = [gbackend EXCEPT ![t] = Interface_backend]
    /\ gmac' = [gmac EXCEPT ![t] = mac]
    /\ gtimeout' = [gtimeout EXCEPT ![t] = DefaultTimeout]
    /\ gargs' = [gargs EXCEPT ![t] = <<mac, timeout>>]
    /\ has_lock' = [has_lock EXCEPT ![t] = FALSE]
    /\ op' = [op EXCEPT ![t] = "none"]
    /\ exc' = [exc EXCEPT ![t] = "none"]
    /\ conn' = [conn EXCEPT ![t] = "none"]
    /\ ndisc' = [ndisc EXCEPT ![t] = 0]
    /\ UNCHANGED <<ifaceVars, locked, pc>>

\* connect(mac, timeout): return _BackendConnection(self._backend, mac,
\* timeout), whose __init__ stores the three and sets _has_lock = False.
IfaceConnect(t, mac, timeout) ==
    /\ iface = "live"
    /\ pc[t] = "idle"
    /\ gstate[t] = "None"
    /\ mac \in Macs
    /\ timeout \in Timeouts
    /\ gstate' = [gstate EXCEPT ![t] = "Created"]
    /\ gbackend' = [gbackend EXCEPT ![t] = Interface_backend]
    /\ gmac' = [gmac EXCEPT ![t] = mac]
    /\ gtimeout' = [gtimeout EXCEPT ![t] = timeout]
    /\ gargs' = [gargs EXCEPT ![t] = <<mac, timeout>>]
    /\ has_lock' = [has_lock EXCEPT ![t] = FALSE]
    /\ op' = [op EXCEPT ![t] = "none"]
    /\ exc' = [exc EXCEPT ![t] = "none"]
    /\ conn' = [conn EXCEPT ![t] = "none"]
    /\ ndisc' = [ndisc EXCEPT ![t] = 0]
    /\ UNCHANGED <<ifaceVars, locked, pc>>

\* Mutant: __del__ disconnects without looking at is_connected().
TeardownCheck_Unconditional ==
    /\ iface = "live"
    /\ tdseen' = Interface_is_connected
    /\ iface' = "td_disc"
    /\ UNCHANGED <<usable, tdisc, tdexc, locked, guardVars>>

\* __del__, first half: if self.is_connected():
TeardownCheck ==
    /\ iface = "live"
    /\ tdseen' = Interface_is_connected
    /\ iface' = IF Interface_is_connected THEN "td_disc" ELSE "dead"
    /\ UNCHANGED <<usable, tdisc, tdexc, locked, guardVars>>

\* Mutant: the forced disconnect also releases the lock.
TeardownDisconnect_ReleasesLock(raises) ==
    /\ iface = "td_disc"
    /\ raises \in BOOLEAN
    /\ iface' = "dead"
    /\ tdisc' = tdisc + 1
    /\ tdexc' = "none"
    /\ locked' = FALSE
    /\ UNCHANGED <<usable, tdseen, guardVars>>

\* __del__, second half: self._backend.disconnect(). __del__ runs as a
\* finalizer: an error D raised in it is reported by the interpreter and
\* dropped, it reaches no caller.
TeardownDisconnect(raises) ==
    /\ iface = "td_disc"
    /\ raises \in BOOLEAN
    /\ iface' = "dead"
    /\ tdisc' = tdisc + 1
    /\ tdexc' = "none"
    /\ UNCHANGED <<usable, tdseen, locked, guardVars>>

(***************************************************************************)
(* _BackendConnection                                                      *)
(***************************************************************************)

\* Call of __enter__ on the thread's guard, in whatever state the guard is.
Enter(t) ==
    /\ pc[t] = "idle"
    /\ gstate[t] # "None"
    /\ pc' = [pc EXCEPT ![t] = "acquire"]
    /\ op' = [op EXCEPT ![t] = "enter"]
    /\ exc' = [exc EXCEPT ![t] = "none"]
    /\ UNCHANGED <<ifaceVars, bindVars, locked, has_lock, gstate, conn, ndisc>>

\* Mutant: the acquisition does not wait for the lock to be free.
Acquire_NonBlocking(t) ==
    /\ pc[t] = "acquire"
    /\ locked' = TRUE
    /\ gstate' = [gstate EXCEPT ![t] = "Held"]
    /\ conn' = [conn EXCEPT ![t] = "none"]
    /\ ndisc' = [ndisc EXCEPT ![t] = 0]
    /\ pc' = [pc EXCEPT ![t] = "setflag"]
    /\ UNCHANGED <<ifaceVars, bindVars, op, exc, has_lock>>

\* self._lock.acquire(): blocks while the lock is locked.
Acquire(t) ==
    /\ pc[t] = "acquire"
    /\ ~locked
    /\ locked' = TRUE
    /\ gstate' = [gstate EXCEPT ![t] = "Held"]
    /\ conn' = [conn EXCEPT ![t] = "none"]
    /\ ndisc' = [ndisc EXCEPT ![t] = 0]
    /\ pc' = [pc EXCEPT ![t] = "setflag"]
    /\ UNCHANGED <<ifaceVars, bindVars, op, exc, has_lock>>

\* Mutant: __enter__ does not set the flag.
SetFlag_NotSet(t) ==
    /\ pc[t] = "setflag"
    /\ pc' = [pc EXCEPT ![t] = "connect"]
    /\ UNCHANGED <<ifaceVars, bindVars, locked, op, exc, has_lock, gstate, conn,
                   ndisc>>

\* self._has_lock = True
SetFlag(t) ==
    /\ pc[t] = "setflag"
    /\ has_lock' = [has_lock EXCEPT ![t] = TRUE]
    /\ pc' = [pc EXCEPT ![t] = "connect"]
    /\ UNCHANGED <<ifaceVars, bindVars, locked, op, exc, gstate, conn, ndisc>>

\* Mutant: a failed connect only releases the lock, without the disconnect.
BackendConnect_ReleaseOnly(t, raises) ==
    /\ pc[t] = "connect"
    /\ raises \in BOOLEAN
    /\ IF raises
         THEN /\ exc' = [exc EXCEPT ![t] = "E"]
              /\ conn' = [conn EXCEPT ![t] = "fail"]
              /\ pc' = [pc EXCEPT ![t] = "cl_rel"]
         ELSE /\ conn' = [conn EXCEPT ![t] = "ok"]
              /\ pc' = [pc EXCEPT ![t] = "idle"]
              /\ UNCHANGED exc
    /\ UNCHANGED <<ifaceVars, bindVars, locked, op, has_lock, gstate, ndisc>>

\* self._backend.connect(mac, timeout): returns (and __enter__ returns the
\* backend), or raises E and the except clause calls self._cleanup().
BackendConnect(t, raises) ==
    /\ pc[t] = "connect"
    /\ raises \in BOOLEAN
    /\ IF raises
         THEN /\ exc' = [exc EXCEPT ![t] = "E"]
              /\ conn' = [conn EXCEPT ![t] = "fail"]
              /\ pc' = [pc EXCEPT ![t] = "cleanup"]
         ELSE /\ conn' = [conn EXCEPT ![t] = "ok"]
              /\ pc' = [pc EXCEPT ![t] = "idle"]
              /\ UNCHANGED exc
    /\ UNCHANGED <<ifaceVars, bindVars, locked, op, has_lock, gstate, ndisc>>

\* Call of __exit__(exc_type, exc_val, exc_tb); e is the error raised inside
\* the scoped region, if any.
Exit(t, e) ==
    /\ pc[t] = "idle"
    /\ gstate[t] # "None"
    /\ e \in RegionErrors
    /\ pc' = [pc EXCEPT ![t] = "cleanup"]
    /\ op' = [op EXCEPT ![t] = "exit"]
    /\ exc' = [exc EXCEPT ![t] = e]
    /\ UNCHANGED <<ifaceVars, bindVars, locked, has_lock, gstate, conn, ndisc>>

\* The guard is discarded: __del__ runs.
Del(t) ==
    /\ pc[t] = "idle"
    /\ gstate[t] # "None"
    /\ pc' = [pc EXCEPT ![t] = "cleanup"]
    /\ op' = [op EXCEPT ![t] = "del"]
    /\ exc' = [exc EXCEPT ![t] = "none"]
    /\ UNCHANGED <<ifaceVars, bindVars, locked, has_lock, gstate, conn, ndisc>>

\* Mutant: _cleanup without the test of self._has_lock.
CleanupCheck_Unconditional(t) ==
    /\ pc[t] = "cleanup"
    /\ pc' = [pc EXCEPT ![t] = "cl_disc"]
    /\ UNCHANGED <<ifaceVars, bindVars, locked, op, exc, has_lock, gstate, conn,
                   ndisc>>

\* Mutant: _cleanup releases the lock before it disconnects.
CleanupCheck_ReleaseFirst(t) ==
    /\ pc[t] = "cleanup"
    /\ IF has_lock[t]
         THEN /\ locked' = FALSE
              /\ gstate' = [gstate EXCEPT ![t] = "Released"]
              /\ pc' = [pc EXCEPT ![t] = "cl_disc"]
         ELSE /\ pc' = [pc EXCEPT ![t] = "ret"]
              /\ UNCHANGED <<locked, gstate>>
    /\ UNCHANGED <<ifaceVars, bindVars, op, exc, has_lock, conn, ndisc>>

\* _cleanup: if self._has_lock:
CleanupCheck(t) ==
    /\ pc[t] = "cleanup"
    /\ pc' = [pc EXCEPT ![t] = IF has_lock[t] THEN "cl_disc" ELSE "ret"]
    /\ UNCHANGED <<ifaceVars, bindVars, locked, op, exc, has_lock, gstate, conn,
                   ndisc>>

\* Mutant: release and flag reset after the try block instead of in finally,
\* so a raising disconnect skips them.
BackendDisconnect_NoFinally(t, raises) ==
    /\ pc[t] = "cl_disc"
    /\ raises \in BOOLEAN
    /\ ndisc' = [ndisc EXCEPT ![t] = @ + 1]
    /\ exc' = [exc EXCEPT ![t] = IF raises THEN "D" ELSE @]
    /\ pc' = [pc EXCEPT ![t] = IF raises THEN "ret" ELSE "cl_rel"]
    /\ UNCHANGED <<ifaceVars, bindVars, locked, op, has_lock, gstate, conn>>

\* Mutant: _cleanup releases the lock without calling disconnect.
BackendDisconnect_Skipped(t, raises) ==
    /\ pc[t] = "cl_disc"
    /\ raises \in BOOLEAN
    /\ pc' = [pc EXCEPT ![t] = "cl_rel"]
    /\ UNCHANGED <<ifaceVars, bindVars, locked, op, exc, has_lock, gstate, conn,
                   ndisc>>

\* try: self._backend.disconnect(); an error D it raises replaces the error
\* in flight and propagates once the finally block has run.
BackendDisconnect(t, raises) ==
    /\ pc[t] = "cl_disc"
    /\ raises \in BOOLEAN
    /\ ndisc' = [ndisc EXCEPT ![t] = @ + 1]
    /\ exc' = [exc EXCEPT ![t] = IF raises THEN "D" ELSE @]
    /\ pc' = [pc EXCEPT ![t] = "cl_rel"]
    /\ UNCHANGED <<ifaceVars, bindVars, locked, op, has_lock, gstate, conn>>

\* Mutant: the flag reset is skipped when an error is in flight.
Release_FlagOutsideFinally(t) ==
    /\ pc[t] = "cl_rel"
    /\ locked' = FALSE
    /\ gstate' = [gstate EXCEPT ![t] = "Released"]
    /\ pc' = [pc EXCEPT ![t] = IF exc[t] = "D" THEN "ret" ELSE "cl_clr"]
    /\ UNCHANGED <<ifaceVars, bindVars, op, exc, has_lock, conn, ndisc>>

\* Mutant: the cleanup finishes without releasing the lock.
Release_LockKept(t) ==
    /\ pc[t] = "cl_rel"
    /\ gstate' = [gstate EXCEPT ![t] = "Released"]
    /\ pc' = [pc EXCEPT ![t] = "cl_clr"]
    /\ UNCHANGED <<ifaceVars, bindVars, locked, op, exc, has_lock, conn, ndisc>>

\* finally: self._lock.release(); threading.Lock.release() raises
\* RuntimeError on an unlocked lock, which skips the flag reset.
Release(t) ==
    /\ pc[t] = "cl_rel"
    /\ IF locked
         THEN /\ locked' = FALSE
              /\ gstate' = [gstate EXCEPT ![t] = "Released"]
              /\ pc' = [pc EXCEPT ![t] = "cl_clr"]
              /\ UNCHANGED exc
         ELSE /\ exc' = [exc EXCEPT ![t] = "RT"]
              /\ pc' = [pc EXCEPT ![t] = "ret"]
              /\ UNCHANGED <<locked, gstate>>
    /\ UNCHANGED <<ifaceVars, bindVars, op, has_lock, conn, ndisc>>

\* Mutant: the flag is left set.
ClearFlag_Forget(t) ==
    /\ pc[t] = "cl_clr"
    /\ pc' = [pc EXCEPT ![t] = "ret"]
    /\ UNCHANGED <<ifaceVars, bindVars, locked, op, exc, has_lock, gstate, conn,
                   ndisc>>

\* self._has_lock = False
ClearFlag(t) ==
    /\ pc[t] = "cl_clr"
    /\ has_lock' = [has_lock EXCEPT ![t] = FALSE]
    /\ pc' = [pc EXCEPT ![t] = "ret"]
    /\ UNCHANGED <<ifaceVars, bindVars, locked, op, exc, gstate, conn, ndisc>>

\* Mutant: __exit__ returns a true value, which swallows the region's error.
Return_ExitSwallowsRegionError(t) ==
    /\ pc[t] = "ret"
    /\ pc' = [pc EXCEPT ![t] = "idle"]
    /\ IF op[t] = "del"
         THEN /\ exc' = [exc EXCEPT ![t] = "none"]
              /\ gstate' = [gstate EXCEPT ![t] = "None"]
              /\ has_lock' = [has_lock EXCEPT ![t] = FALSE]
              /\ gbackend' = [gbackend EXCEPT ![t] = "none"]
              /\ gmac' = [gmac EXCEPT ![t] = "none"]
              /\ gtimeout' = [gtimeout EXCEPT ![t] = "none"]
              /\ gargs' = [gargs EXCEPT ![t] = <<"none", "none">>]
         ELSE /\ exc' = [exc EXCEPT ![t] =
                           IF op[t] = "exit" /\ @ = "R" THEN "none" ELSE @]
              /\ UNCHANGED <<gstate, has_lock, bindVars>>
    /\ UNCHANGED <<ifaceVars, locked, op, conn, ndisc>>

\* Mutant: __exit__ swallows the error raised by its cleanup.
Return_ExitSuppresses(t) ==
    /\ pc[t] = "ret"
    /\ pc' = [pc EXCEPT ![t] = "idle"]
    /\ IF op[t] = "del"
         THEN /\ exc' = [exc EXCEPT ![t] = "none"]
              /\ gstate' = [gstate EXCEPT ![t] = "None"]
              /\ has_lock' = [has_lock EXCEPT ![t] = FALSE]
              /\ gbackend' = [gbackend EXCEPT ![t] = "none"]
              /\ gmac' = [gmac EXCEPT ![t] = "none"]
              /\ gtimeout' = [gtimeout EXCEPT ![t] = "none"]
              /\ gargs' = [gargs EXCEPT ![t] = <<"none", "none">>]
         ELSE /\ exc' = [exc EXCEPT ![t] =
                           IF op[t] = "exit" /\ @ = "D" THEN "none" ELSE @]
              /\ UNCHANGED <<gstate, has_lock, bindVars>>
    /\ UNCHANGED <<ifaceVars, locked, op, conn, ndisc>>

\* _cleanup is over and the method that called it ends:
\*   __enter__: the bare raise re-raises the error in flight;
\*   __exit__ : returns None, so the error in flight keeps propagating;
\*   __del__  : an error is not propagated out of a finalizer; the guard
\*              object is gone.
Return(t) ==
    /\ pc[t] = "ret"
    /\ pc' = [pc EXCEPT ![t] = "idle"]
    /\ IF op[t] = "del"
         THEN /\ exc' = [exc EXCEPT ![t] = "none"]
              /\ gstate' = [gstate EXCEPT ![t] = "None"]
              /\ has_lock' = [has_lock EXCEPT ![t] = FALSE]
              /\ gbackend' = [gbackend EXCEPT ![t] = "none"]
              /\ gmac' = [gmac EXCEPT ![t] = "none"]
              /\ gtimeout' = [gtimeout EXCEPT ![t] = "none"]
              /\ gargs' = [gargs EXCEPT ![t] = <<"none", "none">>]
         ELSE UNCHANGED <<exc, gstate, has_lock, bindVars>>
    /\ UNCHANGED <<ifaceVars, locked, op, conn, ndisc>>

Next ==
    \/ \E r \in CheckResults : Construct(r)
    \/ \E t \in Threads : IfaceConnect(t, "AA:BB:CC:DD:EE:FF", DefaultTimeout)
    \/ TeardownCheck
    \/ \E raises \in BOOLEAN : TeardownDisconnect(raises)
    \/ \E t \in Threads : Enter(t)
    \/ \E t \in Threads : Acquire(t)
    \/ \E t \in Threads : SetFlag(t)
    \/ \E t \in Threads, raises \in BOOLEAN : BackendConnect(t, raises)
    \/ \E t \in Threads, e \in RegionErrors : Exit(t, e)
    \/ \E t \in Threads : Del(t)
    \/ \E t \in Threads : CleanupCheck(t)
    \/ \E t \in Threads, raises \in BOOLEAN : BackendDisconnect(t, raises)
    \/ \E t \in Threads : Release(t)
    \/ \E t \in Threads : ClearFlag(t)
    \/ \E t \in Threads : Return(t)

Spec == Init /\ [][Next]_vars

\* The process whose backend is usable and whose backend calls succeed, with
\* every address and timeout given to connect().
NextConnect ==
    \/ Construct("true")
    \/ \E t \in Threads, mac \in Macs, timeout \in Timeouts :
          IfaceConnect(t, mac, timeout)
    \/ \E t \in Threads : Enter(t)
    \/ \E t \in Threads : Acquire(t)
    \/ \E t \in Threads : SetFlag(t)
    \/ \E t \in Threads : BackendConnect(t, FALSE)
    \/ \E t \in Threads : Exit(t, "none")
    \/ \E t \in Threads : Del(t)
    \/ \E t \in Threads : CleanupCheck(t)
    \/ \E t \in Threads : BackendDisconnect(t, FALSE)
    \/ \E t \in Threads : Release(t)
    \/ \E t \in Threads : ClearFlag(t)
    \/ \E t \in Threads : Return(t)

SpecConnect == Init /\ [][NextConnect]_vars

\* A thread enters a guard only when it is not inside a scoped region.
EnterOutsideRegion(t) ==
    /\ ~Held(t)
    /\ Enter(t)

\* The scoped region of a Held guard ends: the with statement calls
\* __exit__, with or without an error raised by the region.
RegionEnds(t) ==
    /\ Held(t)
    /\ \E e \in RegionErrors : Exit(t, e)

\* The statements of __enter__ after the acquisition and of _cleanup; the
\* backend calls among them return or raise.
RunningStep(t) ==
    \/ SetFlag(t)
    \/ \E raises \in BOOLEAN : BackendConnect(t, raises)
    \/ CleanupCheck(t)
    \/ \E raises \in BOOLEAN : BackendDisconnect(t, raises)
    \/ Release(t)
    \/ ClearFlag(t)
    \/ Return(t)

\* The threads and their guards on a constructed Interface. The Interface
\* is not destroyed: its __del__ takes no part in the locking.
NextLive ==
    \/ Construct("true")
    \/ \E t \in Threads : IfaceConnect(t, "AA:BB:CC:DD:EE:FF", DefaultTimeout)
    \/ \E t \in Threads : EnterOutsideRegion(t)
    \/ \E t \in Threads : Acquire(t)
    \/ \E t \in Threads : SetFlag(t)
    \/ \E t \in Threads, raises \in BOOLEAN : BackendConnect(t, raises)
    \/ \E t \in Threads, e \in RegionErrors : Exit(t, e)
    \/ \E t \in Threads : Del(t)
    \/ \E t \in Threads : CleanupCheck(t)
    \/ \E t \in Threads, raises \in BOOLEAN : BackendDisconnect(t, raises)
    \/ \E t \in Threads : Release(t)
    \/ \E t \in Threads : ClearFlag(t)
    \/ \E t \in Threads : Return(t)

\* A running thread takes its next step, the region of a Held guard ends,
\* and a free lock with waiters is given to one of them.
Progress ==
    /\ \A t \in Threads : WF_vars(RunningStep(t))
    /\ \A t \in Threads : WF_vars(RegionEnds(t))
    /\ WF_vars(\E t \in Threads : Acquire(t))

\* Fair lock scheduling: a waiter that finds the lock free again and again
\* is given it.
FairLock == \A t \in Threads : SF_vars(Acquire(t))

SpecLive == Init /\ [][NextLive]_vars /\ Progress

(***************************************************************************)
(* Properties                                                              *)
(***************************************************************************)

\* C1: mutual exclusion. At every instant at most one guard is Held, and a
\* Held guard implies a locked lock; a thread that finds the lock held is
\* therefore never past its acquisition while the holder has not released.
C1_MutualExclusion ==
    /\ Cardinality({t \in Threads : Held(t)}) <= 1
    /\ (\E t \in Threads : Held(t)) => locked

\* One guard is Held while another thread waits in _lock.acquire().
C1_Witness ==
    \E t, u \in Threads :
        /\ t # u
        /\ Held(t)
        /\ has_lock[t]
        /\ pc[u] = "acquire"

\* C2: no leaked lock on failed connect. When the error of an __enter__ whose
\* backend connect raised has reached the caller, the guard neither holds
\* the lock nor has its flag set, whether disconnect returned or raised.
C2_NoLeakedLockOnFailedConnect ==
    \A t \in Threads :
        (pc[t] = "idle" /\ op[t] = "enter" /\ conn[t] = "fail")
            => (~Held(t) /\ ~has_lock[t])

\* Two failed entries, one whose cleanup disconnect returned and one whose
\* cleanup disconnect raised; the lock is free.
C2_Witness ==
    \E t, u \in Threads :
        /\ pc[t] = "idle" /\ op[t] = "enter" /\ conn[t] = "fail"
        /\ exc[t] = "E"
        /\ pc[u] = "idle" /\ op[u] = "enter" /\ conn[u] = "fail"
        /\ exc[u] = "D"
        /\ ~locked

\* C3: an Interface never exists on a backend whose check_backend()
\* returned false.
C3_UnusableBackendFailsConstruction ==
    (iface \in {"live", "td_disc"}) => usable

\* C4: once a release (__exit__ or __del__) of a guard whose connect
\* succeeded has ended, the guard does not hold the lock, its flag is clear
\* and disconnect was invoked exactly once for it, also after every later
\* __exit__ or __del__.
C4_ReleaseDisconnectsExactlyOnce ==
    \A t \in Threads :
        (pc[t] = "idle" /\ op[t] \in {"exit", "del"} /\ conn[t] = "ok")
            => (ndisc[t] = 1 /\ ~Held(t) /\ ~has_lock[t])

\* One guard released by an exit with an error raised in the region, another
\* discarded; both had connected.
C4_Witness ==
    \E t, u \in Threads :
        /\ pc[t] = "idle" /\ op[t] = "exit" /\ exc[t] = "R"
        /\ conn[t] = "ok" /\ ndisc[t] = 1
        /\ pc[u] = "idle" /\ op[u] = "del" /\ conn[u] = "ok"
        /\ gstate[u] = "None" /\ ndisc[u] = 1

\* C5: idempotent release. A cleanup invoked on a guard that is already
\* Released returns at once: it calls no disconnect and leaves the lock, and
\* every guard's state, as they are, also while another guard is Held.
C5_IdempotentRelease ==
    [][\A t \in Threads :
          (gstate[t] = "Released" /\ pc[t] = "cleanup" /\ pc'[t] # "cleanup")
              => /\ pc'[t] = "ret"
                 /\ locked' = locked
                 /\ ndisc' = ndisc
                 /\ gstate' = gstate
                 /\ has_lock' = has_lock]_vars

\* A released guard is in its second cleanup while another guard is Held.
C5_Witness ==
    \E t, u \in Threads :
        /\ gstate[t] = "Released"
        /\ pc[t] = "cleanup"
        /\ ndisc[t] = 1
        /\ Held(u)

\* C6: the error that reaches the caller of an __enter__ whose backend
\* connect raised E is E.
C6_ConnectErrorReraisedUnchanged ==
    \A t \in Threads :
        (pc[t] = "idle" /\ op[t] = "enter" /\ conn[t] = "fail")
            => exc[t] = "E"

\* C7: when the error raised by disconnect has left the cleanup, the guard
\* does not hold the lock and its flag is clear.
C7_LockReleasedWhenDisconnectRaises ==
    \A t \in Threads :
        (exc[t] = "D" /\ pc[t] \in {"ret", "idle"})
            => (~Held(t) /\ ~has_lock[t])

\* The disconnect of t's exit raised, and afterwards another guard acquired
\* the lock.
C7_Witness ==
    \E t, u \in Threads :
        /\ pc[t] = "idle" /\ op[t] = "exit" /\ exc[t] = "D"
        /\ Held(u)
        /\ has_lock[u]

\* C8 as claimed: no error raised by disconnect reaches the caller of
\* __exit__.
C8_ExitSuppressesDisconnectError ==
    \A t \in Threads :
        (pc[t] = "idle" /\ op[t] = "exit") => exc[t] # "D"

\* C8 as amended: an error raised by disconnect in the cleanup of __exit__
\* stays in flight until __exit__ has ended, so it reaches the caller.
C8_ExitPropagatesDisconnectError ==
    [][\A t \in Threads :
          (op[t] = "exit" /\ exc[t] = "D" /\ pc[t] # "idle")
              => exc'[t] = "D"]_vars

\* The error of disconnect has reached the caller of __exit__, in place of
\* nothing or of the region's error.
C8_Witness ==
    \E t \in Threads :
        /\ pc[t] = "idle" /\ op[t] = "exit" /\ exc[t] = "D"
        /\ ~Held(t)
        /\ ~has_lock[t]

\* C9 as claimed: a Released guard is never Held again.
C9_ReleasedIsAbsorbing ==
    [][\A t \in Threads :
          gstate[t] = "Released" => gstate'[t] # "Held"]_vars

\* C9 as amended: a Released guard becomes Held again only by the lock
\* acquisition of a new __enter__; every other method ends with the flag
\* clear.
C9_ReleasedUntilReentered ==
    [][\A t \in Threads :
          gstate[t] = "Released"
              => /\ gstate'[t] = "Held" => (op[t] = "enter" /\ pc[t] = "acquire")
                 /\ pc'[t] = "idle" => ~has_lock'[t]]_vars

\* A released guard is entered again and is about to acquire the lock.
C9_Witness ==
    \E t \in Threads :
        /\ gstate[t] = "Released"
        /\ pc[t] = "acquire"
        /\ ~locked

\* C10: every backend connect or disconnect is invoked by the guard that is
\* Held, and the Interface teardown never invokes disconnect while a guard
\* is Held.
C10_OnlyHolderCallsBackend ==
    [][/\ \A t \in Threads :
             (pc[t] \in {"connect", "cl_disc"} /\ pc'[t] # pc[t]) => Held(t)
       /\ (iface = "td_disc" /\ iface' = "dead")
             => \A t \in Threads : ~Held(t)]_vars

\* C11: is_connected(), on the Interface and on the guard class, is true
\* exactly when some guard is Held.
C11_IsConnectedIffSomeGuardHeld ==
    /\ Interface_is_connected <=> (\E t \in Threads : Held(t))
    /\ Guard_is_connected <=> (\E t \in Threads : Held(t))

\* is_connected() is true inside u's scoped region although t's connect has
\* failed and t's region has exited.
C11_Witness ==
    \E t, u \in Threads :
        /\ pc[t] = "idle" /\ op[t] = "enter" /\ conn[t] = "fail"
        /\ pc[u] = "idle" /\ op[u] = "enter" /\ conn[u] = "ok" /\ Held(u)
        /\ Interface_is_connected

C13_ConnectOnlyCreatesGuard ==
    [][\A t \in Threads :
          (gstate[t] = "None" /\ gstate'[t] # "None")
              => /\ gstate'[t] = "Created"
                 /\ ~has_lock'[t]
                 /\ gbackend'[t] = Interface_backend
                 /\ gmac'[t] = gargs'[t][1]
                 /\ gtimeout'[t] = gargs'[t][2]
                 /\ locked' = locked
                 /\ pc' = pc
                 /\ UNCHANGED ifaceVars
                 /\ \A u \in Threads \ {t} :
                       /\ gstate'[u] = gstate[u]
                       /\ has_lock'[u] = has_lock[u]
                       /\ conn'[u] = conn[u]
                       /\ ndisc'[u] = ndisc[u]
                       /\ gbackend'[u] = gbackend[u]
                       /\ gmac'[u] = gmac[u]
                       /\ gtimeout'[u] = gtimeout[u]]_vars

\* A guard was created with a non-default timeout while another guard is
\* Held; the new guard's thread is not waiting for the lock.
C13_Witness ==
    \E t, u \in Threads :
        /\ gstate[t] = "Created" /\ op[t] = "none" /\ pc[t] = "idle"
        /\ gmac[t] = "11:22:33:44:55:66" /\ gtimeout[t] = "5"
        /\ gargs[t] = <<"11:22:33:44:55:66", "5">>
        /\ ~has_lock[t]
        /\ Held(u) /\ locked

\* C14: discarding a guard that was never entered is a no-op. No step of
\* the __del__ of a Created guard invokes a backend operation, changes the
\* lock or changes anything of another guard, also while another guard is
\* Held; its cleanup goes from the flag test straight to its end.
C14_DiscardOfCreatedGuardIsNoOp ==
    [][\A t \in Threads :
          (gstate[t] = "Created" /\ op[t] = "del" /\ pc'[t] # pc[t])
              => /\ pc[t] \in {"cleanup", "ret"}
                 /\ pc'[t] \in {"ret", "idle"}
                 /\ locked' = locked
                 /\ ndisc' = ndisc
                 /\ conn' = conn
                 /\ tdisc' = tdisc
                 /\ \A u \in Threads \ {t} :
                       /\ gstate'[u] = gstate[u]
                       /\ has_lock'[u] = has_lock[u]]_vars

\* The cleanup of a never-entered guard's __del__ has ended while another
\* guard is Held.
C14_Witness ==
    \E t, u \in Threads :
        /\ gstate[t] = "Created" /\ op[t] = "del" /\ pc[t] = "ret"
        /\ conn[t] = "none" /\ ndisc[t] = 0
        /\ Held(u) /\ has_lock[u] /\ locked

\* C15: an error that is in flight in __exit__ (the error raised inside the
\* region, or the error of the cleanup's disconnect that replaced it) is
\* never dropped: some error is in flight after every step up to the return
\* to the caller, and at that return the guard neither holds the lock nor
\* has its flag set.
C15_RegionErrorNotSwallowed ==
    [][\A t \in Threads :
          (op[t] = "exit" /\ exc[t] # "none" /\ pc[t] # "idle")
              => /\ exc'[t] # "none"
                 /\ pc'[t] = "idle"
                       => (gstate'[t] # "Held" /\ ~has_lock'[t])]_vars

\* The error raised inside the region of a connected guard has reached the
\* caller after the exit cleanup.
C15_Witness ==
    \E t \in Threads :
        /\ pc[t] = "idle" /\ op[t] = "exit" /\ exc[t] = "R"
        /\ conn[t] = "ok" /\ ndisc[t] = 1
        /\ gstate[t] = "Released" /\ ~has_lock[t]

\* C16: in an __enter__ whose backend connect raised, the cleanup runs in
\* order before the error leaves: up to the disconnect call no disconnect
\* was made and the guard holds the lock with its flag set; at the release
\* disconnect was called exactly once; at the flag reset the lock is
\* released and the flag still set; when the error leaves __enter__,
\* disconnect was called exactly once, the lock is released and the flag is
\* clear.
C16_FailedConnectCleansUpBeforeRaising ==
    \A t \in Threads :
        (op[t] = "enter" /\ conn[t] = "fail")
            => /\ pc[t] \in {"acquire", "cleanup", "cl_disc", "cl_rel",
                             "cl_clr", "ret", "idle"}
               /\ pc[t] \in {"cleanup", "cl_disc"}
                     => (ndisc[t] = 0 /\ Held(t) /\ has_lock[t])
               /\ pc[t] = "cl_rel"
                     => (ndisc[t] = 1 /\ Held(t) /\ has_lock[t])
               /\ pc[t] = "cl_clr"
                     => (ndisc[t] = 1 /\ ~Held(t) /\ has_lock[t])
               /\ pc[t] \in {"ret", "idle"}
                     => (ndisc[t] = 1 /\ ~Held(t) /\ ~has_lock[t]
                         /\ exc[t] # "none")

\* The connect error has left __enter__ after one disconnect attempt; the
\* lock is free.
C16_Witness ==
    \E t \in Threads :
        /\ pc[t] = "idle" /\ op[t] = "enter" /\ conn[t] = "fail"
        /\ exc[t] = "E"
        /\ ndisc[t] = 1
        /\ ~locked

\* C17: backend sessions of different guards never interleave. A guard
\* invokes backend connect or disconnect only while it is Held (after its
\* acquire, before its release), and at that moment no other guard has a
\* session open (a connect invoked whose disconnect is still to come); a
\* guard with an open session is Held.
C17_SessionsNeverInterleave ==
    [][\A t \in Threads :
          /\ (pc[t] \in {"connect", "cl_disc"} /\ pc'[t] # pc[t])
                => /\ Held(t)
                   /\ has_lock[t]
                   /\ \A u \in Threads \ {t} : ~InSession(u)
          /\ InSession(t) => Held(t)]_vars

\* One guard has its session open (connected, inside its region) while
\* another thread waits for the lock with its own connect still to come.
C17_Witness ==
    \E t, u \in Threads :
        /\ t # u
        /\ InSession(t) /\ conn[t] = "ok" /\ pc[t] = "idle"
        /\ pc[u] = "acquire"
        /\ ~InSession(u)

\* C18 as claimed: at most one guard has its flag set, and a guard whose
\* flag is set is Held.
C18_FlagAgreesWithOwnership ==
    /\ Cardinality({t \in Threads : has_lock[t]}) <= 1
    /\ \A t \in Threads : has_lock[t] => Held(t)

\* C18 as amended: the flag lags the lock by one statement. A guard whose
\* flag is set is Held or stands between its lock release and its flag
\* reset; a Held guard has its flag set or stands between its acquire and
\* its flag write; at most one guard outside the release-to-reset window
\* has its flag set.
C18_FlagLagsOwnership ==
    /\ \A t \in Threads : has_lock[t] => (Held(t) \/ pc[t] = "cl_clr")
    /\ \A t \in Threads : Held(t) => (has_lock[t] \/ pc[t] = "setflag")
    /\ Cardinality({t \in Threads : has_lock[t] /\ pc[t] # "cl_clr"}) <= 1

\* Two guards have their flags set: one has released the lock and not yet
\* reset its flag, the other has acquired the lock since.
C18_Witness ==
    \E t, u \in Threads :
        /\ t # u
        /\ has_lock[t] /\ pc[t] = "cl_clr" /\ ~Held(t)
        /\ has_lock[u] /\ Held(u)

\* C19: the Interface teardown leaves the locking state as it is. No step
\* of the Interface's __del__ changes the lock, a guard's flag or a guard's
\* state; the lock is released only by the cleanup of the guard that holds
\* it, after that guard has invoked disconnect itself.
C19_TeardownLeavesLockingUnchanged ==
    [][/\ (iface \in {"live", "td_disc"} /\ iface' # iface)
             => /\ locked' = locked
                /\ has_lock' = has_lock
                /\ gstate' = gstate
       /\ (locked /\ ~locked')
             => \E t \in Threads :
                   Held(t) /\ pc[t] = "cl_rel" /\ ndisc[t] = 1]_vars

\* The teardown has forced a disconnect; the holder still holds the lock,
\* is_connected() is still true, and the holder's cleanup has invoked
\* disconnect a second time.
C19_Witness ==
    \E t \in Threads :
        /\ iface = "dead" /\ tdisc = 1
        /\ Held(t) /\ has_lock[t] /\ locked
        /\ Interface_is_connected
        /\ pc[t] = "cl_rel" /\ ndisc[t] = 1

\* __enter__ of guard t has finished: it returned with the guard Held and
\* connected, or the connect failed and __enter__ raised.
EnterFinished(t) ==
    /\ op[t] = "enter" /\ pc[t] = "idle"
    /\ \/ Held(t) /\ conn[t] = "ok"
       \/ conn[t] = "fail" /\ exc[t] # "none"

\* C20: progress. When backend calls return or raise, regions of Held
\* guards end and no thread enters a guard inside a region, a held lock
\* with a waiter is eventually released and some waiter acquires it; under
\* fair lock scheduling every thread that started __enter__ eventually
\* holds the guard connected or has the failed connect raised to it.
C20_Progress ==
    /\ (locked /\ \E t \in Threads : pc[t] = "acquire") ~> ~locked
    /\ (\E t \in Threads : pc[t] = "acquire")
          ~> (\E t \in Threads : pc[t] = "setflag")
    /\ FairLock
          => \A t \in Threads : (pc[t] = "acquire") ~> EnterFinished(t)

\* A thread is blocked in the acquisition while another guard is Held.
C20_Witness ==
    \E t \in Threads, u \in Threads :
        /\ u # t
        /\ pc[t] = "acquire" /\ op[t] = "enter"
        /\ Held(u) /\ locked /\ conn[u] = "ok" /\ pc[u] = "idle"

====
